---- MODULE Spec2Model ----
(***************************************************************************)
(* A model of snotes.py, a single-window Tk note-taking application.       *)
(*                                                                         *)
(* The state is the NoteApp object (notes, config, current_note_id,        *)
(* auto_save_after_id, displayed_note_ids), the widgets it reads back      *)
(* (editor text and its modified flag, the search box, the listbox         *)
(* selection), Tk's queue of pending `after` timers, the two files on      *)
(* disk and the wall clock.  Every event handler is one action.            *)
(*                                                                         *)
(* Text is a sequence of one-character strings.  A handler is written as   *)
(* a function from an application-state record to the next one, so that    *)
(* handlers that call each other compose as the code does.                 *)
(***************************************************************************)
EXTENDS Integers, Sequences, FiniteSets, TLC

VARIABLES
    running,             \* the window exists (between __init__ and destroy)
    notes,               \* self.notes: note id -> note record
    file,                \* notes.json on disk
    config,              \* self.config['last_note_id'] (NoId: absent)
    configFile,          \* last_note_id held by config.json on disk
    current_note_id,     \* self.current_note_id
    editor,              \* content of self.text_editor
    modified,            \* the editor's modified flag (edit_modified)
    auto_save_after_id,  \* self.auto_save_after_id (NoTimer: None)
    timers,              \* Tk's pending `after` timers that run auto_save
    search_var,          \* self.search_var
    displayed_note_ids,  \* self.displayed_note_ids
    selection,           \* note_listbox.curselection(): a row, or NoRow
    now,                 \* the last reading of datetime.now(), which only
                         \* grows: stamps are compared, never subtracted
    sec,                 \* the second of the clock, which names new notes
    fails,               \* writes of notes.json that may still fail
    config_locked,       \* config.json cannot be written
    elapsed,             \* time since the newest timer was started
    sinceEdit,           \* time since the editor text last changed
    lastOp               \* the handler that last changed the state, and
                         \* what its write of notes.json did

vars == <<running, notes, file, config, configFile, current_note_id, editor,
          modified, auto_save_after_id, timers, search_var,
          displayed_note_ids, selection, now, sec, fails,
          config_locked, elapsed, sinceEdit, lastOp>>

-----------------------------------------------------------------------------
(* Bounds of the model *)

\* clock readings a behaviour may take after the first launch
MaxStamps == 3
\* seconds that may pass after the first launch
MaxSecs == 1
\* writes of notes.json that may fail in one behaviour
MaxFails == 1
\* milliseconds per step of the timer clock (TimedSpec)
TickMs == 500

(* Program constants *)

TitleMax == 50          \* lines[0][:50], new_title[:50]
AutoSaveMs == 1000      \* self.root.after(1000, self.auto_save)
NoId == 0               \* config.get("last_note_id") is None
NoTimer == 0            \* self.auto_save_after_id = None
NoRow == 0              \* curselection() is empty

-----------------------------------------------------------------------------
(* Text *)

NL == "\n"
Whitespace == {" ", NL}

Str(n, c) == [i \in 1..n |-> c]

Take(s, n) == SubSeq(s, 1, IF Len(s) < n THEN Len(s) ELSE n)

RECURSIVE LStrip(_, _)
LStrip(s, ws) ==
    IF s # <<>> /\ Head(s) \in ws THEN LStrip(Tail(s), ws) ELSE s

RECURSIVE RStrip(_, _)
RStrip(s, ws) ==
    IF s # <<>> /\ s[Len(s)] \in ws
    THEN RStrip(SubSeq(s, 1, Len(s) - 1), ws)
    ELSE s

\* str.strip()
Strip(s) == RStrip(LStrip(s, Whitespace), Whitespace)

\* s.split('\n')[0]
FirstLine(s) ==
    IF \E i \in 1..Len(s) : s[i] = NL
    THEN SubSeq(s, 1, (CHOOSE i \in 1..Len(s) :
                          s[i] = NL /\ \A j \in 1..(i - 1) : s[j] # NL) - 1)
    ELSE s

\* '\n'.join(s.split('\n')[1:]), with the separator in front when there is
\* a second line
AfterFirstLine(s) == SubSeq(s, Len(FirstLine(s)) + 1, Len(s))

UpperCase == <<"A", "B", "C", "D", "E", "F", "G", "H", "I", "J", "K", "L", "M",
              "N", "O", "P", "Q", "R", "S", "T", "U", "V", "W", "X", "Y", "Z">>
LowerCase == <<"a", "b", "c", "d", "e", "f", "g", "h", "i", "j", "k", "l", "m",
              "n", "o", "p", "q", "r", "s", "t", "u", "v", "w", "x", "y", "z">>

LowerChar(c) ==
    IF \E i \in 1..Len(UpperCase) : UpperCase[i] = c
    THEN LowerCase[CHOOSE i \in 1..Len(UpperCase) : UpperCase[i] = c]
    ELSE c

\* str.lower()
Lower(s) == [i \in 1..Len(s) |-> LowerChar(s[i])]

\* a in b
Contains(b, a) ==
    \E i \in 0..(Len(b) - Len(a)) : SubSeq(b, i + 1, i + Len(a)) = a

Placeholder == <<"S", "e", "a", "r", "c", "h", ".", ".", ".">>
NewNoteTitle == <<"N", "e", "w", " ", "N", "o", "t", "e">>
Untitled == <<"U", "n", "t", "i", "t", "l", "e", "d">>

-----------------------------------------------------------------------------
(* Notes, files and the application state *)

Note(title, content, created, mod) ==
    [title |-> title, content |-> content, created |-> created,
     modified |-> mod]

NoNotes == [i \in {} |-> Note(<<>>, <<>>, 0, 0)]

\* del d[k]
Del(d, k) == [i \in DOMAIN d \ {k} |-> d[i]]

\* d[k] = v
Put(d, k, v) == [i \in DOMAIN d \cup {k} |-> IF i = k THEN v ELSE d[i]]

\* json.dump(notes): the document is the list of the members of the
\* object, each a key with the four fields of its note
RECURSIVE Dump(_)
Dump(d) ==
    IF DOMAIN d = {} THEN <<>>
    ELSE LET k == CHOOSE i \in DOMAIN d : \A j \in DOMAIN d : i <= j
         IN  <<[key |-> k, title |-> d[k].title, content |-> d[k].content,
                created |-> d[k].created, modified |-> d[k].modified]>>
             \o Dump(Del(d, k))

\* json.load: the object of the members of the document
RECURSIVE Parse(_)
Parse(doc) ==
    IF doc = <<>> THEN NoNotes
    ELSE LET m == doc[Len(doc)]
         IN  Put(Parse(SubSeq(doc, 1, Len(doc) - 1)), m.key,
                 Note(m.title, m.content, m.created, m.modified))

FileMissing == [st |-> "missing", data |-> <<>>]
FileCorrupt == [st |-> "corrupt", data |-> <<>>]
FileOf(d) == [st |-> "ok", data |-> Dump(d)]

\* The handlers below read and write this record; St is the record of the
\* variables and Commit writes one back.
St ==
    [notes |-> notes, file |-> file, config |-> config,
     configFile |-> configFile, cur |-> current_note_id, editor |-> editor,
     modified |-> modified, search |-> search_var,
     displayed |-> displayed_note_ids, selection |-> selection,
     now |-> now, sec |-> sec, fails |-> fails,
     locked |-> config_locked,
     wrote |-> "none"]

\* what a write of a file may do: succeed, fail in open(), or fail in
\* json.dump after open(..., 'w') has truncated the file
WriteOutcomes ==
    IF fails > 0 THEN {"ok", "open_fails", "dump_fails"} ELSE {"ok"}

\* save_notes: open(..., 'w') truncates, json.dump writes; an exception from
\* either is caught and reported.
SaveNotes(s, w) ==
    IF w = "ok" THEN [s EXCEPT !.file = FileOf(s.notes), !.wrote = "ok"]
    ELSE IF w = "open_fails"
    THEN [s EXCEPT !.fails = @ - 1, !.wrote = "failed"]
    ELSE [s EXCEPT !.file = FileCorrupt, !.fails = @ - 1, !.wrote = "failed"]

\* load_notes
LoadNotes(f) == IF f.st = "ok" THEN Parse(f.data) ELSE NoNotes

\* save_config: a failure (open() raises on a file that cannot be written)
\* is swallowed
SaveConfig(s) ==
    IF s.locked THEN s ELSE [s EXCEPT !.configFile = s.config]

-----------------------------------------------------------------------------
(* The note list *)

\* max(notes.items(), key=lambda x: x[1]['modified'])[0]
MostRecent(d) ==
    CHOOSE i \in DOMAIN d :
        \A j \in DOMAIN d :
            \/ d[j].modified < d[i].modified
            \/ d[j].modified = d[i].modified /\ i <= j

\* [id for id, _ in sorted(notes.items(), key=modified, reverse=True)]
RECURSIVE SortedIds(_)
SortedIds(d) ==
    IF DOMAIN d = {} THEN <<>>
    ELSE <<MostRecent(d)>> \o SortedIds(Del(d, MostRecent(d)))

\* list.index
IndexOf(seq, x) == CHOOSE i \in 1..Len(seq) : seq[i] = x

InSeq(seq, x) == \E i \in 1..Len(seq) : seq[i] = x

\* _rebuild_listbox: the rows are replaced, which clears the selection, and
\* the row of the current note is selected again when it is shown.
RebuildListbox(s, ids) ==
    [s EXCEPT !.displayed = ids,
              !.selection = IF InSeq(ids, s.cur) THEN IndexOf(ids, s.cur)
                            ELSE NoRow]

\* update_note_list
UpdateNoteList(s) == RebuildListbox(s, SortedIds(s.notes))

SearchTerm(s) ==
    IF Lower(s.search) = Lower(Placeholder) THEN <<>> ELSE Lower(s.search)

Matches(n, term) ==
    Contains(Lower(n.title), term) \/ Contains(Lower(n.content), term)

\* filter_notes
FilterNotes(s) ==
    RebuildListbox(s,
        IF SearchTerm(s) # <<>>
        THEN SelectSeq(SortedIds(s.notes),
                       LAMBDA i : Matches(s.notes[i], SearchTerm(s)))
        ELSE SortedIds(s.notes))

-----------------------------------------------------------------------------
(* The handlers, as functions of the application state.  w is the outcome  *)
(* of the handler's write of notes.json.                                   *)

\* (a change for the worse: last_note_id is not recorded)
LoadNoteUnrecorded(s, id) ==
    IF id \in DOMAIN s.notes
    THEN UpdateNoteList(
             SaveConfig([s EXCEPT !.cur = id,
                                  !.editor = s.notes[id].content,
                                  !.modified = FALSE]))
    ELSE s

\* load_note
LoadNote(s, id) ==
    IF id \in DOMAIN s.notes
    THEN UpdateNoteList(
             SaveConfig([s EXCEPT !.cur = id,
                                  !.editor = s.notes[id].content,
                                  !.modified = FALSE,
                                  !.config = id]))
    ELSE s

\* (a change for the worse: the title is the whole first line)
TitleOfWholeLine(content) ==
    IF FirstLine(content) # <<>> THEN FirstLine(content) ELSE Untitled

\* lines[0][:50] if lines[0] else 'Untitled', and 'Untitled' again when
\* that is blank
TitleOf(content) ==
    LET line == FirstLine(content)
        title == IF line # <<>> THEN Take(line, TitleMax) ELSE Untitled
    IN  IF Strip(title) = <<>> THEN Untitled ELSE title

\* notes[current_note_id].update({title, content, modified})
Updated(s, content) ==
    [s EXCEPT !.notes[s.cur].title = TitleOf(content),
              !.notes[s.cur].content = content,
              !.notes[s.cur].modified = s.now + 1,
              !.now = s.now + 1]

\* (a change for the worse: the note is updated and not written)
StoreCurrentUnwritten(s, content, w) ==
    [UpdateNoteList(Updated(s, content)) EXCEPT !.modified = FALSE]

\* (a change for the worse: a write that fails ends the handler)
StoreCurrentOrRaise(s, content, w) ==
    IF w = "ok"
    THEN [UpdateNoteList(SaveNotes(Updated(s, content), w))
           EXCEPT !.modified = FALSE]
    ELSE SaveNotes(Updated(s, content), w)

\* save_current_note, when there is text and the note is in the collection
StoreCurrent(s, content, w) ==
    [UpdateNoteList(SaveNotes(Updated(s, content), w))
      EXCEPT !.modified = FALSE]

\* (a change for the worse: the empty note stays in the collection)
RemoveCurrentKept(s, w) ==
    IF s.cur \in DOMAIN s.notes
    THEN [UpdateNoteList(SaveNotes(
              [s EXCEPT !.notes[s.cur].content = <<>>], w))
           EXCEPT !.modified = FALSE]
    ELSE [s EXCEPT !.modified = FALSE]

\* (a change for the worse: the list is not rebuilt)
RemoveCurrentUnlisted(s, w) ==
    IF s.cur \in DOMAIN s.notes
    THEN [SaveNotes([s EXCEPT !.notes = Del(@, s.cur)], w)
           EXCEPT !.modified = FALSE]
    ELSE [s EXCEPT !.modified = FALSE]

\* save_current_note, when the text is empty: "Don't persist empty notes"
RemoveCurrent(s, w) ==
    IF s.cur \in DOMAIN s.notes
    THEN [UpdateNoteList(SaveNotes([s EXCEPT !.notes = Del(@, s.cur)], w))
           EXCEPT !.modified = FALSE]
    ELSE [s EXCEPT !.modified = FALSE]

\* save_current_note
SaveCurrentNote(s, w) ==
    LET content == Strip(s.editor) IN
    IF s.cur = NoId THEN s
    ELSE IF content = <<>> THEN RemoveCurrent(s, w)
    ELSE IF s.cur \notin DOMAIN s.notes
    THEN [s EXCEPT !.modified = FALSE]
    ELSE StoreCurrent(s, content, w)

\* new_note.  The identifier is the clock to the second
\* (strftime("%Y%m%d_%H%M%S")), the stamps are the clock in full; dt is the
\* seconds gone since the identifier before, and the three readings of the
\* clock are taken as one.
NewNote(s, dt, w) ==
    LET s1 == SaveCurrentNote(s, w)
        t == s1.now + 1
        note_id == s1.sec + dt
        s2 == [s1 EXCEPT !.notes = Put(@, note_id,
                                       Note(NewNoteTitle, <<>>, t, t)),
                         !.cur = note_id,
                         !.now = t,
                         !.sec = note_id]
    IN  LoadNote(s2, note_id)

\* min(notes.items(), key=lambda x: x[1]['modified'])[0]
LeastRecent(d) ==
    CHOOSE i \in DOMAIN d : \A j \in DOMAIN d : d[i].modified <= d[j].modified

\* (a change for the worse: the oldest note left is opened)
DeleteNoteOpensOldest(s, confirm, dt, w) ==
    LET has_content ==
            s.cur \in DOMAIN s.notes /\ Strip(s.notes[s.cur].content) # <<>>
        s1 == SaveNotes([s EXCEPT !.notes = Del(@, s.cur)], w)
    IN  IF s.cur = NoId THEN s
        ELSE IF has_content /\ ~confirm THEN s
        ELSE IF s.cur \in DOMAIN s.notes
        THEN IF DOMAIN s1.notes # {}
             THEN LoadNote(s1, LeastRecent(s1.notes))
             ELSE NewNote(s1, dt, w)
        ELSE s

\* delete_note; confirm is the user's answer to askyesno
DeleteNote(s, confirm, dt, w) ==
    LET has_content ==
            s.cur \in DOMAIN s.notes /\ Strip(s.notes[s.cur].content) # <<>>
        s1 == SaveNotes([s EXCEPT !.notes = Del(@, s.cur)], w)
    IN  IF s.cur = NoId THEN s
        ELSE IF has_content /\ ~confirm THEN s
        ELSE IF s.cur \in DOMAIN s.notes
        THEN IF DOMAIN s1.notes # {}
             THEN LoadNote(s1, MostRecent(s1.notes))
             ELSE NewNote(s1, dt, w)
        ELSE s

\* (a change for the worse: the note is loaded before the text is saved)
OnNoteSelectLoadsFirst(s, row, w) ==
    IF row = NoRow \/ row > Len(s.displayed) THEN s
    ELSE IF s.displayed[row] # s.cur
    THEN SaveCurrentNote(LoadNote(s, s.displayed[row]), w)
    ELSE s

\* on_note_select; row is what curselection() returns after the click
OnNoteSelect(s, row, w) ==
    IF row = NoRow \/ row > Len(s.displayed) THEN s
    ELSE IF s.displayed[row] # s.cur
    THEN LoadNote(SaveCurrentNote(s, w), s.displayed[row])
    ELSE s

\* A click on a row of the listbox (selectmode SINGLE): Tk selects the row
\* and delivers <<ListboxSelect>>.
ClickRow(s, row, w) == OnNoteSelect([s EXCEPT !.selection = row], row, w)

\* (a change for the worse: the title is set and the editor left alone)
RenameNoteTitleOnly(s, answer, w) ==
    LET row == s.selection
        note_id == s.displayed[row]
        new_title == Strip(answer)
    IN  IF row = NoRow \/ row > Len(s.displayed) THEN s
        ELSE IF answer = <<>> \/ Strip(answer) = <<>> THEN s
        ELSE UpdateNoteList(SaveNotes(
                 [s EXCEPT !.notes[note_id].title = Take(new_title, TitleMax)],
                 w))

\* rename_note; answer is what askstring returns (<<>> for None or '')
RenameNote(s, answer, w) ==
    LET row == s.selection
        note_id == s.displayed[row]
        new_title == Strip(answer)
        content == s.editor \o <<NL>>
        edited == RStrip(new_title \o AfterFirstLine(content), {NL})
    IN  IF row = NoRow \/ row > Len(s.displayed) THEN s
        ELSE IF answer = <<>> \/ Strip(answer) = <<>> THEN s
        ELSE IF note_id = s.cur
        THEN SaveCurrentNote([s EXCEPT !.editor = edited], w)
        ELSE UpdateNoteList(SaveNotes(
                 [s EXCEPT !.notes[note_id].title = Take(new_title, TitleMax)],
                 w))

\* on_closing; the window is destroyed by the action
OnClosing(s, w) == SaveCurrentNote(SaveConfig(s), w)

\* __init__, from the two files on disk
Startup(s, dt, w) ==
    LET s0 == UpdateNoteList(
                  [s EXCEPT !.notes = LoadNotes(s.file),
                            !.config = s.configFile,
                            !.cur = s.configFile,
                            !.editor = <<>>,
                            !.modified = FALSE,
                            !.search = Placeholder,
                            !.displayed = <<>>,
                            !.selection = NoRow])
    IN  IF DOMAIN s0.notes # {} /\ s0.cur \in DOMAIN s0.notes
        THEN LoadNote(s0, s0.cur)
        ELSE IF DOMAIN s0.notes # {}
        THEN LoadNote(s0, MostRecent(s0.notes))
        ELSE NewNote(s0, dt, w)

-----------------------------------------------------------------------------
(* Timers *)

\* root.after_cancel(id) when id is set
CancelTimer(ts, id) == IF id # NoTimer THEN ts \ {id} ELSE ts

\* the identifier root.after returns: one no pending timer has
NewTimer(ts) == CHOOSE h \in 1..(Cardinality(ts) + 1) : h \notin ts

\* on_text_modified, for the state of the modified flag it reads:
\* <<auto_save_after_id, pending timers>> afterwards
OnTextModified(flag, id, ts) ==
    IF flag
    THEN <<NewTimer(CancelTimer(ts, id)),
           CancelTimer(ts, id) \cup {NewTimer(CancelTimer(ts, id))}>>
    ELSE <<id, ts>>

Due(t) == t * TickMs >= AutoSaveMs

-----------------------------------------------------------------------------
(* Inputs *)

LongLine == Str(TitleMax + 1, "c")

\* what the user may leave in the editor
TypeTexts ==
    {<<>>, <<" ">>, <<" ", "A", NL, "b", " ">>, LongLine}

\* what the user may leave in the search box
SearchTexts == {<<>>, Placeholder, <<"B">>}

\* what the rename dialog may return (<<>>: cancelled)
RenameAnswers == {<<>>, <<" ">>, <<" ", "T", " ">>, LongLine}

\* notes of earlier runs: the older one was edited last
OldNotes ==
    1 :> Note(<<"A">>, <<"A", NL, "b">>, 1, 3) @@ 2 :> Note(<<"c">>, <<"c">>, 2, 2)

InitFiles ==
    {FileMissing, FileCorrupt, FileOf(Del(OldNotes, 2)), FileOf(OldNotes)}

InitConfigs == {NoId} \cup DOMAIN OldNotes

StartTime == OldNotes[MostRecent(OldNotes)].modified
StartSec == Cardinality(DOMAIN OldNotes) + 1

MaxTime == StartTime + MaxStamps
MaxSec == StartSec + MaxSecs

Seconds == {0, 1}

-----------------------------------------------------------------------------
(* Actions *)

Commit(s) ==
    /\ s.now <= MaxTime
    /\ s.sec <= MaxSec
    /\ s.fails >= 0
    /\ notes' = s.notes
    /\ file' = s.file
    /\ config' = s.config
    /\ configFile' = s.configFile
    /\ current_note_id' = s.cur
    /\ editor' = s.editor
    /\ modified' = s.modified
    /\ search_var' = s.search
    /\ displayed_note_ids' = s.displayed
    /\ selection' = s.selection
    /\ now' = s.now
    /\ sec' = s.sec
    /\ fails' = s.fails
    /\ UNCHANGED config_locked

Ran(op, s) == lastOp' = [op |-> op, wrote |-> s.wrote]

\* lastOp names the handler when it changed anything
Did(op, s) == IF s = St THEN UNCHANGED lastOp ELSE Ran(op, s)

Stopped ==
    /\ running = FALSE
    /\ notes = NoNotes
    /\ file \in InitFiles
    /\ config = NoId
    /\ configFile \in InitConfigs
    /\ current_note_id = NoId
    /\ editor = <<>>
    /\ modified = FALSE
    /\ auto_save_after_id = NoTimer
    /\ timers = {}
    /\ search_var = <<>>
    /\ displayed_note_ids = <<>>
    /\ selection = NoRow
    /\ sec = StartSec
    /\ elapsed = 0
    /\ sinceEdit = 0
    /\ lastOp = [op |-> "none", wrote |-> "none"]

\* the disk is healthy
Init == Stopped /\ fails = 0 /\ config_locked = FALSE /\ now = StartTime

\* up to MaxFails writes of notes.json fail; later on the clock
FailInit ==
    Stopped /\ fails = MaxFails /\ config_locked = FALSE /\ now = StartTime + 2

\* config.json may be a file that cannot be written; later on the clock
ConfigFailInit ==
    Stopped /\ fails = 0 /\ config_locked \in BOOLEAN /\ now = StartTime + 1

\* main(): NoteApp(root)
Launch ==
    /\ ~running
    /\ \E dt \in Seconds, w \in WriteOutcomes :
          LET s == Startup(St, dt, w) IN Commit(s) /\ Ran("launch", s)
    /\ running' = TRUE
    /\ auto_save_after_id' = NoTimer
    /\ timers' = {}
    /\ elapsed' = 0
    /\ sinceEdit' = 0

\* The user edits the text.  The widget raises its modified flag and
\* delivers <<Modified>> when the flag changes, not on every edit.
Type ==
    /\ running
    /\ \E t \in TypeTexts \ {editor} :
          LET s == [St EXCEPT !.editor = t, !.modified = TRUE]
              tm == IF modified THEN <<auto_save_after_id, timers>>
                    ELSE OnTextModified(TRUE, auto_save_after_id, timers)
          IN  /\ Commit(s) /\ Did("type", s)
              /\ auto_save_after_id' = tm[1]
              /\ timers' = tm[2]
    /\ elapsed' = IF modified THEN elapsed ELSE 0
    /\ sinceEdit' = 0
    /\ UNCHANGED running

\* auto_save, run by timer h
RunAutoSave(h) ==
    /\ running
    /\ h \in timers
    /\ \E w \in WriteOutcomes :
          LET s == SaveCurrentNote(St, w) IN Commit(s) /\ Did("auto_save", s)
    /\ timers' = timers \ {h}
    /\ UNCHANGED <<running, auto_save_after_id, elapsed, sinceEdit>>

\* A timer fires: any time may have passed
AutoSave == \E h \in timers : RunAutoSave(h)

\* A timer fires, no sooner than its delay
AutoSaveDue == \E h \in timers : Due(elapsed) /\ RunAutoSave(h)

\* Time passes on the timer clock
Tick ==
    /\ running
    /\ ~(Due(elapsed) /\ Due(sinceEdit))
    /\ elapsed' = IF Due(elapsed) THEN elapsed ELSE elapsed + 1
    /\ sinceEdit' = IF Due(sinceEdit) THEN sinceEdit ELSE sinceEdit + 1
    /\ lastOp' = [op |-> "tick", wrote |-> "none"]
    /\ UNCHANGED <<running, notes, file, config, configFile, current_note_id,
                   editor, modified, auto_save_after_id, timers, search_var,
                   displayed_note_ids, selection, now, sec, fails, config_locked>>

Handler(op, s) ==
    /\ running
    /\ Commit(s)
    /\ Did(op, s)
    /\ UNCHANGED <<running, auto_save_after_id, timers, elapsed, sinceEdit>>

\* <Control-s>
SaveKey == \E w \in WriteOutcomes : Handler("save", SaveCurrentNote(St, w))

\* the + button, <Control-n>
New ==
    \E dt \in Seconds, w \in WriteOutcomes :
        Handler("new_note", NewNote(St, dt, w))

\* the Delete button, <Control-d>, <Delete>
Delete ==
    \E confirm \in BOOLEAN, dt \in Seconds, w \in WriteOutcomes :
        Handler("delete_note", DeleteNote(St, confirm, dt, w))

\* a click on a row of the list (the placeholder row when the list is empty)
Select ==
    \E row \in 1..(IF displayed_note_ids = <<>> THEN 1
                   ELSE Len(displayed_note_ids)),
       w \in WriteOutcomes :
        Handler("select", ClickRow(St, row, w))

\* a double click on the list
Rename ==
    \E answer \in RenameAnswers, w \in WriteOutcomes :
        Handler("rename", RenameNote(St, answer, w))

\* the user edits the search box; the write trace runs filter_notes
Search ==
    \E t \in SearchTexts \ {search_var} :
        Handler("search", FilterNotes([St EXCEPT !.search = t]))

\* WM_DELETE_WINDOW
Close ==
    /\ running
    /\ \E w \in WriteOutcomes :
          LET s == OnClosing(St, w) IN Commit(s) /\ Ran("close", s)
    /\ running' = FALSE
    /\ timers' = {}
    /\ UNCHANGED <<auto_save_after_id, elapsed, sinceEdit>>

Events ==
    \/ Launch \/ Type \/ SaveKey \/ New \/ Delete \/ Select \/ Rename
    \/ Close

Next == Events \/ AutoSave

\* every handler but the search box, on a healthy disk, timers firing at
\* any time
Spec == Init /\ [][Next]_vars

NextSearch == Next \/ Search

\* with the search box
SearchSpec == Init /\ [][NextSearch]_vars

NextTimed == Events \/ AutoSaveDue \/ Tick

\* with the timer clock: a timer fires no sooner than its delay
TimedSpec == Init /\ [][NextTimed]_vars

\* with writes of notes.json that fail
FailSpec == FailInit /\ [][Next]_vars

\* with a config.json that may be read-only
ConfigFailSpec == ConfigFailInit /\ [][Next]_vars

TypeOK ==
    /\ running \in BOOLEAN
    /\ now \in StartTime..MaxTime
    /\ fails \in 0..MaxFails
    /\ modified \in BOOLEAN
    /\ \A i \in DOMAIN notes : notes[i].created <= notes[i].modified
    /\ \A i, j \in DOMAIN notes :
          i # j => notes[i].modified # notes[j].modified

-----------------------------------------------------------------------------
(* Claims *)

InNotes(id) == id \in DOMAIN notes
OnDisk == LoadNotes(file)

\* C1: every edit is auto-saved.  After an edit the auto-save timer is
\* pending, and once auto_save has run on an editor whose trimmed text is
\* not empty, the collection and notes.json both hold that text as the
\* content of the note current_note_id names.
C1_EveryEditIsSaved ==
    /\ running /\ modified => timers # {}
    /\ running /\ lastOp.op = "auto_save" /\ Strip(editor) # <<>> =>
          /\ InNotes(current_note_id)
          /\ notes[current_note_id].content = Strip(editor)
          /\ current_note_id \in DOMAIN OnDisk
          /\ OnDisk[current_note_id].content = Strip(editor)

\* C2: auto-save is debounced.  At most one auto-save timer is pending, and
\* auto_save never runs sooner than a full timer period after the last
\* change of the editor text.
C2_AutoSaveIsDebounced ==
    /\ Cardinality(timers) <= 1
    /\ running /\ lastOp.op = "auto_save" => Due(sinceEdit)

\* C3: every note of the collection with content has as its title the first
\* line of the content, cut to 50 characters.
C3_TitleIsFirstLine ==
    \A i \in DOMAIN notes :
        notes[i].content # <<>> =>
            /\ Len(notes[i].title) <= TitleMax
            /\ notes[i].title =
                   SubSeq(notes[i].content, 1, Len(notes[i].title))
            /\ \A k \in 1..Len(notes[i].title) : notes[i].title[k] # NL
            /\ \/ Len(notes[i].title) = TitleMax
               \/ Len(notes[i].content) = Len(notes[i].title)
               \/ notes[i].content[Len(notes[i].title) + 1] = NL

\* C3, reached: a note has just been renamed while another note holds a
\* line longer than 50 characters, whose title was cut.
C3_Witness ==
    /\ running /\ lastOp.op = "rename"
    /\ InNotes(current_note_id)
    /\ notes[current_note_id].title = <<"T">>
    /\ \E i \in DOMAIN notes :
          Len(FirstLine(notes[i].content)) > TitleMax
          /\ Len(notes[i].title) = TitleMax

\* the notes the search term selects, newest first
Found(term) ==
    LET hit(i) == \/ Contains(Lower(notes[i].title), Lower(term))
                  \/ Contains(Lower(notes[i].content), Lower(term))
    IN  {i \in DOMAIN notes : hit(i)}

NewestFirst(ids) ==
    \A k \in 1..(Len(ids) - 1) :
        notes[ids[k]].modified >= notes[ids[k + 1]].modified

\* C4: while the search box holds a term, the list shows exactly the notes
\* whose title or content holds the term in any case, newest first.
C4_ListShowsTheSearch ==
    running /\ search_var # <<>> /\ search_var # Placeholder =>
        /\ {displayed_note_ids[k] : k \in 1..Len(displayed_note_ids)}
              = Found(search_var)
        /\ Len(displayed_note_ids) = Cardinality(Found(search_var))
        /\ NewestFirst(displayed_note_ids)

\* C5: after delete_note has removed the current note, the notes left are
\* those it wrote to notes.json; the newest of them is current and is shown
\* in the editor, and when none is left one fresh empty note is.
C5_DeleteOpensNewest ==
    running /\ lastOp.op = "delete_note" =>
        /\ InNotes(current_note_id)
        /\ editor = notes[current_note_id].content
        /\ \A i \in DOMAIN notes :
              notes[i].modified <= notes[current_note_id].modified
        /\ IF DOMAIN OnDisk # {}
           THEN notes = OnDisk
           ELSE /\ DOMAIN notes = {current_note_id}
                /\ notes[current_note_id] = Note(NewNoteTitle, <<>>, now, now)

\* C5, reached: delete_note has removed a note and left two, the newer of
\* which is open.
C5_Witness ==
    /\ running /\ lastOp.op = "delete_note"
    /\ Cardinality(DOMAIN notes) = 2
    /\ \E i \in DOMAIN notes :
          notes[i].modified < notes[current_note_id].modified
    /\ editor = notes[current_note_id].content

\* What a launch must open, given the two files it reads
OpensAtStartup ==
    LET loaded == LoadNotes(file)
        opened == current_note_id'
    IN  IF configFile \in DOMAIN loaded
        THEN /\ opened = configFile
             /\ notes' = loaded
             /\ editor' = loaded[opened].content
        ELSE IF DOMAIN loaded # {}
        THEN /\ opened \in DOMAIN loaded
             /\ \A j \in DOMAIN loaded :
                   loaded[j].modified <= loaded[opened].modified
             /\ notes' = loaded
             /\ editor' = loaded[opened].content
        ELSE /\ DOMAIN notes' = {opened}
             /\ notes'[opened] = Note(NewNoteTitle, <<>>, now', now')
             /\ editor' = <<>>

C7_EmptyNotesNotPersisted ==
    /\ file.st = "ok" =>
          \A k \in 1..Len(file.data) : Strip(file.data[k].content) # <<>>
    /\ lastOp.op \in {"save", "auto_save", "close"} /\ Strip(editor) = <<>>
          => ~InNotes(current_note_id)

\* C7 happens: an auto-save found only blanks in the editor, removed the
\* note and wrote the file, which holds the other notes.
C7_Witness ==
    /\ running /\ lastOp.op = "auto_save" /\ lastOp.wrote = "ok"
    /\ editor = <<" ">>
    /\ ~InNotes(current_note_id)
    /\ current_note_id \notin DOMAIN OnDisk
    /\ DOMAIN OnDisk # {}

Mem(s) ==
    [notes |-> s.notes, cur |-> s.cur, editor |-> s.editor,
     modified |-> s.modified, displayed |-> s.displayed,
     selection |-> s.selection, config |-> s.config,
     configFile |-> s.configFile, now |-> s.now, sec |-> s.sec]

\* What handler op would leave from the present state were its write to
\* succeed, over its inputs
IfWritten(op) ==
    CASE op \in {"save", "auto_save"} -> {SaveCurrentNote(St, "ok")}
      [] op = "new_note" -> {NewNote(St, dt, "ok") : dt \in Seconds}
      [] op = "delete_note" ->
            {DeleteNote(St, TRUE, dt, "ok") : dt \in Seconds}
      [] op = "select" ->
            {ClickRow(St, row, "ok") : row \in 1..(Len(displayed_note_ids) + 1)}
      [] op = "rename" -> {RenameNote(St, a, "ok") : a \in RenameAnswers}
      [] op = "close" -> {OnClosing(St, "ok")}
      [] OTHER -> {}

\* The notes that a write puts in the file
Stored(d) == [i \in {j \in DOMAIN d : d[j].content # <<>>} |-> d[i]]

\* C9: a write of notes.json that fails loses nothing held in memory and
\* does not stop the application.  The handler whose write fails leaves
\* in memory what it would have left had the write succeeded, the window
\* stays open unless the handler is the close; and after any handler whose
\* write succeeded the file decodes to every note that has text.
C9_FailedWriteLosesNothing ==
    [][ /\ fails' < fails =>
              /\ \E s \in IfWritten(lastOp'.op) : Mem(s) = Mem(St')
              /\ lastOp'.wrote = "failed"
              /\ lastOp'.op # "close" => running'
        /\ lastOp'.wrote = "ok" => LoadNotes(file') = Stored(notes') ]_vars

\* C9 happens: a write has failed, the note whose write failed is still in
\* memory, and a later handler wrote the file, which now holds it.
C9_Witness ==
    /\ running /\ fails < MaxFails
    /\ lastOp.op = "delete_note" /\ lastOp.wrote = "ok"
    /\ \E i \in DOMAIN notes : notes[i].content = LongLine
    /\ OnDisk = notes

\* C10: switching notes neither loses nor misattributes text.  A click on
\* another note stores the editor's text in the note being left, shows the
\* stored text of the note clicked and leaves that text as it was; and no
\* handler gives new text to a note other than the current one, nor, but
\* for a rename that rewrites the first line, text other than the
\* editor's.
C10_SwitchKeepsText ==
    [][ running /\ running' =>
          /\ /\ lastOp'.op = "select"
             /\ current_note_id' # current_note_id
             /\ InNotes(current_note_id)
             /\ Strip(editor) # <<>>
             => /\ current_note_id \in DOMAIN notes'
                /\ notes'[current_note_id].content = Strip(editor)
                /\ current_note_id' \in DOMAIN notes'
                /\ editor' = notes'[current_note_id'].content
                /\ notes'[current_note_id'].content
                      = notes[current_note_id'].content
          /\ \A i \in DOMAIN notes' :
                IF i \in DOMAIN notes
                THEN /\ notes'[i].content # notes[i].content
                     /\ notes'[i].content # <<>>
                     => /\ i = current_note_id
                        /\ lastOp'.op # "rename"
                              => notes'[i].content = Strip(editor)
                ELSE notes'[i].content = <<>> ]_vars

\* C10 happens: a click has just moved from a note with edited text to
\* another note; the note left holds the text, the editor shows the other.
C10_Witness ==
    /\ running /\ lastOp.op = "select"
    /\ InNotes(current_note_id)
    /\ editor = notes[current_note_id].content
    /\ \E i \in DOMAIN notes \ {current_note_id} :
          notes[i].content = LongLine

\* The step is handler op at work: it changed the application's state
StepOf(op) == lastOp'.op = op /\ St' # St

\* C11: a deleted note stays deleted.  When delete_note has removed the
\* current note, the note's id is in neither the collection nor the notes
\* file; and no later step puts a note with text into the collection, or a
\* note into the file that the collection did not hold.
C11_DeletedStaysDeleted ==
    [][ running /\ running' =>
          /\ StepOf("delete_note") /\ InNotes(current_note_id) =>
                /\ current_note_id \notin DOMAIN notes'
                /\ current_note_id \notin DOMAIN LoadNotes(file')
          /\ \A i \in DOMAIN notes' \ DOMAIN notes : notes'[i].content = <<>>
          /\ \A i \in DOMAIN LoadNotes(file') \ DOMAIN LoadNotes(file) :
                i \in DOMAIN notes ]_vars

\* The part of C11 about what later steps put back
C11_NothingPutBack ==
    [][ running /\ running' =>
          /\ \A i \in DOMAIN notes' \ DOMAIN notes : notes'[i].content = <<>>
          /\ \A i \in DOMAIN LoadNotes(file') \ DOMAIN LoadNotes(file) :
                i \in DOMAIN notes ]_vars

\* C12: delete_note never discards text without confirmation.  Whenever
\* the current note has text, stored or typed and not yet stored, a
\* delete_note that the user declines to confirm changes nothing.
C12_DeleteAsksFirst ==
    running /\ InNotes(current_note_id)
    /\ (Strip(notes[current_note_id].content) # <<>> \/ Strip(editor) # <<>>)
    => \A dt \in Seconds : DeleteNote(St, FALSE, dt, "ok") = St

\* C13: new_note never clobbers a note.  After new_note every note that
\* the collection held once the current note was saved is still there with
\* its title and content, and there is exactly one more note, an empty one.
C13_NewNoteKeepsNotes ==
    [][ running /\ StepOf("new_note") =>
          LET saved == SaveCurrentNote(St, "ok").notes IN
          /\ \A i \in DOMAIN saved :
                /\ i \in DOMAIN notes'
                /\ notes'[i].title = saved[i].title
                /\ notes'[i].content = saved[i].content
          /\ \E n \in DOMAIN notes' \ DOMAIN saved :
                /\ DOMAIN notes' = DOMAIN saved \cup {n}
                /\ notes'[n].content = <<>> ]_vars

C15_ListIsFaithful ==
    running =>
        /\ \A j, k \in 1..Len(displayed_note_ids) :
              j < k =>
                 /\ displayed_note_ids[j] # displayed_note_ids[k]
                 /\ InNotes(displayed_note_ids[j])
                 /\ InNotes(displayed_note_ids[k])
                 /\ notes[displayed_note_ids[j]].modified
                       >= notes[displayed_note_ids[k]].modified
        /\ \A j \in 1..Len(displayed_note_ids) : InNotes(displayed_note_ids[j])
        /\ selection # NoRow /\ selection <= Len(displayed_note_ids)
              => InNotes(displayed_note_ids[selection])

\* C15 happens: the list is that of a search, with some notes and not
\* others, while the current note is gone from the collection.
C15_Witness ==
    /\ running /\ search_var = <<"B">>
    /\ Len(displayed_note_ids) >= 1
    /\ Len(displayed_note_ids) < Cardinality(DOMAIN notes)
    /\ ~InNotes(current_note_id)

\* C16: whenever a handler can start, current_note_id names a note of the
\* collection.
C16_CurrentNoteExists ==
    running => InNotes(current_note_id)

\* C17: a note's modified stamp changes only when its title or content
\* changes, and its created stamp never changes: in every step but those
\* of new_note and delete_note, which make notes.
C17_StampFollowsChange ==
    [][ running /\ ~StepOf("new_note") /\ ~StepOf("delete_note") =>
          \A i \in DOMAIN notes \cap DOMAIN notes' :
              /\ notes'[i].title = notes[i].title
                 /\ notes'[i].content = notes[i].content
                 => notes'[i].modified = notes[i].modified
              /\ notes'[i].created = notes[i].created ]_vars

\* C18: when notes.json cannot be parsed the application starts with one
\* fresh empty note and leaves the file as it is, and afterwards writes
\* the file only when the user has entered text that is not blank, in the
\* editor or as a title.
C18_CorruptFileIsKept ==
    [][ file.st = "corrupt" =>
          /\ ~running /\ running' =>
                /\ DOMAIN notes' = {current_note_id'}
                /\ notes'[current_note_id'] =
                      Note(NewNoteTitle, <<>>, now', now')
                /\ editor' = <<>>
                /\ file' = file
          /\ file' # file => Strip(editor) # <<>> \/ StepOf("rename") ]_vars

====
